---- MODULE Spec2Model ----
(***************************************************************************)
(* Model of bookshelf-cursor-pagination (src/src/index.js): the            *)
(* fetchCursorPage operation of a bookshelf collection/model, the query    *)
(* statements it builds on the knex query builder, and what the database   *)
(* answers for them over a small table `cars(id, a)`.                      *)
(***************************************************************************)
EXTENDS Integers, Sequences, FiniteSets, TLC

\* ------------------------------------------------------------------ bounds
NumRows == 3        \* rows of the table; ids are 1..NumRows
MaxVal == 1         \* column a holds 0..MaxVal
MaxSort == 2        \* ORDER BY clauses the caller's query carries
MaxLimit == 2       \* largest numeric options.limit
MaxCursorVal == 2   \* free cursor values are 0..MaxCursorVal
MaxStrLen == 2      \* length of a string passed as options.limit
MaxChain == 2       \* follow-up calls made with a returned cursor

\* --------------------------------------------------------- program constants
DEFAULT_LIMIT == 10

\* ------------------------------------------------------------- JS values
\* A JavaScript value as options.limit can hold it. A number is kept in
\* tenths (25 is 2.5) so that fractions and their String() form exist.
JUndefined == [t |-> "undefined", n |-> 0, s |-> <<>>]
JNumber(tenths) == [t |-> "number", n |-> tenths, s |-> <<>>]
JString(chars) == [t |-> "string", n |-> 0, s |-> chars]

Digits == <<"0", "1", "2", "3", "4", "5", "6", "7", "8", "9">>
IsDigit(c) == \E d \in 1..10 : Digits[d] = c
DigitVal(c) == (CHOOSE d \in 1..10 : Digits[d] = c) - 1

RECURSIVE NatToChars(_)
NatToChars(n) ==
  IF n < 10 THEN <<Digits[n + 1]>>
  ELSE NatToChars(n \div 10) \o <<Digits[(n % 10) + 1]>>

Abs(n) == IF n < 0 THEN -n ELSE n

\* String(number): what parseInt first turns a number argument into.
NumberToChars(tenths) ==
  (IF tenths < 0 THEN <<"-">> ELSE <<>>)
    \o NatToChars(Abs(tenths) \div 10)
    \o (IF Abs(tenths) % 10 = 0 THEN <<>> ELSE <<".", Digits[(Abs(tenths) % 10) + 1]>>)

ToChars(v) ==
  CASE v.t = "string" -> v.s
    [] v.t = "number" -> NumberToChars(v.n)
    [] OTHER -> <<"u", "n", "d", "e", "f", "i", "n", "e", "d">>

\* !val
Falsy(v) ==
  CASE v.t = "undefined" -> TRUE
    [] v.t = "number" -> v.n = 0
    [] v.t = "string" -> v.s = <<>>
    [] OTHER -> FALSE

RECURSIVE SkipSpaces(_)
SkipSpaces(cs) ==
  IF cs # <<>> /\ Head(cs) = " " THEN SkipSpaces(Tail(cs)) ELSE cs

RECURSIVE DigitPrefix(_)
DigitPrefix(cs) ==
  IF cs # <<>> /\ IsDigit(Head(cs)) THEN <<Head(cs)>> \o DigitPrefix(Tail(cs)) ELSE <<>>

RECURSIVE CharsToNat(_, _)
CharsToNat(cs, acc) ==
  IF cs = <<>> THEN acc ELSE CharsToNat(Tail(cs), acc * 10 + DigitVal(Head(cs)))

\* parseInt(val, 10): [nan |-> TRUE] or the integer the leading digits spell.
ParseInt(v) ==
  LET trimmed == SkipSpaces(ToChars(v))
      signed == trimmed # <<>> /\ Head(trimmed) \in {"-", "+"}
      neg == trimmed # <<>> /\ Head(trimmed) = "-"
      digits == DigitPrefix(IF signed THEN Tail(trimmed) ELSE trimmed)
  IN IF digits = <<>> THEN [nan |-> TRUE, n |-> 0]
     ELSE [nan |-> FALSE,
           n |-> IF neg THEN -CharsToNat(digits, 0) ELSE CharsToNat(digits, 0)]

ensurePositiveIntWithDefault(val, def) ==
  IF Falsy(val) THEN def
  ELSE IF ParseInt(val).nan THEN def
  ELSE ParseInt(val).n

\* ------------------------------------------------ knex query builder state
\* One entry of qb._statements. `value` is the column reference already cut
\* at its dots (<<"cars", "id">> for 'cars.id'); `conds` are the comparisons
\* of a where statement, ANDed inside one pair of parentheses.
Stmt(type, grouping, bool, value, direction, conds) ==
  [type |-> type, grouping |-> grouping, bool |-> bool, value |-> value,
   direction |-> direction, conds |-> conds]

Cond(col, op, val) == [col |-> col, op |-> op, val |-> val]

EmptyQuery == [statements |-> <<>>, hasLimit |-> FALSE, limit |-> 0]

\* qb.where(col, op, val)
where(qb, col, op, val) ==
  [qb EXCEPT !.statements =
     Append(@, Stmt("whereBasic", "where", "and", <<>>, "", <<Cond(col, op, val)>>))]

\* qb.orWhere(function () { this.andWhere(...) ... })
orWhere(qb, conds) ==
  [qb EXCEPT !.statements =
     Append(@, Stmt("whereWrapped", "where", "or", <<>>, "", conds))]

\* qb.orderBy(column, direction)
orderBy(qb, value, direction) ==
  [qb EXCEPT !.statements =
     Append(@, Stmt("orderByBasic", "order", "", value, direction, <<>>))]

\* qb.groupBy(column)
groupBy(qb, value) ==
  [qb EXCEPT !.statements =
     Append(@, Stmt("groupByBasic", "group", "", value, "", <<>>))]

\* qb.countDistinct(column)
countDistinct(qb, value) ==
  [qb EXCEPT !.statements =
     Append(@, Stmt("aggregate", "columns", "", value, "", <<>>))]

\* qb.limit(n)
limit(qb, n) == [qb EXCEPT !.hasLimit = TRUE, !.limit = n]


OrderStatements(qb) ==
  LET IsOrder(st) == st.type = "orderByBasic" IN SelectSeq(qb.statements, IsOrder)

WhereStatements(qb) ==
  LET IsWhere(st) == st.grouping = "where" IN SelectSeq(qb.statements, IsWhere)

\* ------------------------------------------------------------ applyCursor
MainTable == "cars"
IdAttribute == "id"

NoCursor == [type |-> "none", columnValues |-> <<>>]

reverseSign(sign) == IF sign = ">" THEN "<" ELSE ">"

\* The name and direction of one ORDER BY clause, or the refusal of a column
\* that another table qualifies.
SortedColumn(st) ==
  IF Len(st.value) = 1
    THEN [ok |-> TRUE, name |-> st.value[1], direction |-> st.direction]
  ELSE IF st.value[1] # MainTable
    THEN [ok |-> FALSE, name |-> st.value[2], direction |-> st.direction]
  ELSE [ok |-> TRUE, name |-> st.value[2], direction |-> st.direction]

\* SignFor without the flip for a DESC column
SignForIgnoringDirection(cursorType, direction) ==
  IF cursorType = "before" THEN reverseSign(">") ELSE ">"

\* let sign = '>' and its two flips
SignFor(cursorType, direction) ==
  LET s1 == IF cursorType = "before" THEN reverseSign(">") ELSE ">"
  IN IF direction = "DESC" THEN reverseSign(s1) ELSE s1

RECURSIVE buildWhere(_, _, _, _)
buildWhere(qb, cols, visitedCols, cursor) ==
  LET currentCol == Head(cols)
      remainingCols == Tail(cols)
      index == Len(visitedCols)
      cursorValue == cursor.columnValues[index + 1]
      sign == SignFor(cursor.type, currentCol.direction)
      equalities == [i \in 1..index |->
                       Cond(visitedCols[i].name, "=", cursor.columnValues[i])]
      qb2 == orWhere(qb, Append(equalities, Cond(currentCol.name, sign, cursorValue)))
  IN IF remainingCols = <<>> THEN qb2
     ELSE buildWhere(qb2, remainingCols, Append(visitedCols, currentCol), cursor)

\* applyCursor(qb, cursor, mainTableName, idAttribute): the query builder as
\* it leaves the call, the sort columns that extractCursors closes over, and
\* the error thrown, if any ("" for none).
applyCursor(qb, cursor) ==
  LET isNotSorted == OrderStatements(qb) = <<>>
      qb1 == IF isNotSorted THEN orderBy(qb, <<MainTable, IdAttribute>>, "undefined") ELSE qb
      orders == OrderStatements(qb1)
      sortedColumns == [i \in 1..Len(orders) |-> SortedColumn(orders[i])]
      joined == \E i \in 1..Len(orders) : ~sortedColumns[i].ok
  IN IF joined
       THEN [err |-> "sorting by joined table", qb |-> qb1, sortedColumns |-> <<>>]
     ELSE IF cursor.type = "none"
       THEN [err |-> "", qb |-> qb1, sortedColumns |-> sortedColumns]
     ELSE IF Len(sortedColumns) # Len(cursor.columnValues)
       THEN [err |-> "sort/cursor mismatch", qb |-> qb1, sortedColumns |-> sortedColumns]
     ELSE [err |-> "", qb |-> buildWhere(qb1, sortedColumns, <<>>, cursor),
           sortedColumns |-> sortedColumns]

\* ------------------------------------------- the database (collaborator)
\* The table cars(id, a): row i has id = i and a = tbl[i].
Ids == 1..NumRows
Tables == [Ids -> 0..MaxVal]
FixedTable == [i \in Ids |-> i % (MaxVal + 1)]

\* model.get(name), and the column a SQL comparison reads
Get(tbl, id, name) == IF name = IdAttribute THEN id ELSE tbl[id]

CondHolds(tbl, id, c) ==
  LET x == Get(tbl, id, c.col)
  IN CASE c.op = "=" -> x = c.val
       [] c.op = ">" -> x > c.val
       [] c.op = "<" -> x < c.val

\* one where statement: its comparisons are ANDed inside parentheses
StmtHolds(tbl, id, st) == \A i \in 1..Len(st.conds) : CondHolds(tbl, id, st.conds[i])

\* WHERE s1 <bool2> s2 <bool3> s3 ...: knex joins the statements with their
\* `bool` and no parentheses between them, and SQL binds AND tighter than OR.
\* `run` is the value of the AND-run being read.
RECURSIVE EvalWheres(_, _, _, _)
EvalWheres(tbl, id, ws, run) ==
  IF ws = <<>> THEN run
  ELSE IF Head(ws).bool = "or"
    THEN run \/ EvalWheres(tbl, id, Tail(ws), StmtHolds(tbl, id, Head(ws)))
  ELSE EvalWheres(tbl, id, Tail(ws), run /\ StmtHolds(tbl, id, Head(ws)))

WhereHolds(tbl, id, qb) ==
  LET ws == WhereStatements(qb)
  IN ws = <<>> \/ EvalWheres(tbl, id, Tail(ws), StmtHolds(tbl, id, Head(ws)))

Matching(tbl, qb) == {id \in Ids : WhereHolds(tbl, id, qb)}

OrderColumn(st) == st.value[Len(st.value)]

\* ORDER BY: row i sorts strictly before row j
RECURSIVE SortsBefore(_, _, _, _)
SortsBefore(tbl, i, j, orders) ==
  IF orders = <<>> THEN FALSE
  ELSE LET st == Head(orders)
           x == Get(tbl, i, OrderColumn(st))
           y == Get(tbl, j, OrderColumn(st))
       IN IF x = y THEN SortsBefore(tbl, i, j, Tail(orders))
          ELSE IF st.direction = "DESC" THEN x > y ELSE x < y

\* every order the database may return the rows in: rows that tie on all
\* ORDER BY columns come in any order
Orderings(tbl, rows, orders) ==
  {s \in [1..Cardinality(rows) -> rows] :
     /\ \A p, q \in 1..Cardinality(rows) : p # q => s[p] # s[q]
     /\ \A p, q \in 1..Cardinality(rows) : p < q => ~SortsBefore(tbl, s[q], s[p], orders)}

Take(s, n) == IF n >= Len(s) THEN s ELSE SubSeq(s, 1, n)

\* SELECT ... WHERE ... ORDER BY ... LIMIT n. A negative LIMIT means "no
\* limit" to SQLite and is an error to PostgreSQL and MySQL.
SelectResults(tbl, qb) ==
  LET sorted == Orderings(tbl, Matching(tbl, qb), OrderStatements(qb))
      ok(models) == [state |-> "ok", models |-> models]
  IN IF ~qb.hasLimit THEN {ok(s) : s \in sorted}
     ELSE IF qb.limit < 0
       THEN {ok(s) : s \in sorted} \cup {[state |-> "error", models |-> <<>>]}
     ELSE {ok(Take(s, qb.limit)) : s \in sorted}

\* SELECT COUNT(DISTINCT cars.id) ... LIMIT n: one row holding the count,
\* unless the LIMIT cuts it off.
CountResults(tbl, qb) ==
  LET one == [state |-> "ok", length |-> 1, count |-> Cardinality(Matching(tbl, qb))]
      none == [state |-> "ok", length |-> 0, count |-> 0]
  IN IF ~qb.hasLimit THEN {one}
     ELSE IF qb.limit < 0 THEN {one, [state |-> "error", length |-> 0, count |-> 0]}
     ELSE IF qb.limit = 0 THEN {none}
     ELSE {one}

\* ------------------------------------------------------------------ state
VARIABLES
  table,          \* the rows of cars
  entry,          \* which fetchCursorPage was called: "model", "static", "collection"
  base,           \* the query the caller built on `self` before the call
  options,        \* the options argument
  pc,             \* position of the call
  err,            \* the error the call failed with
  cursor,         \* const cursor
  limitEff,       \* const _limit
  selfQuery,      \* what self.query() holds
  sortedColumns,  \* the sort columns extractCursors closes over
  pageQuery,      \* the query the page fetch runs
  countQuery,     \* the query the count runs
  issued,         \* the queries handed to the database
  coll,           \* the fetched page
  cursors,        \* extractCursors(coll)
  metadata,       \* what count() resolves to
  pagination,     \* the pagination property of the result
  link,           \* how this call got its cursor: "fresh", "after", "before"
  hist            \* the pages of the calls before this one, oldest first

vars == <<table, entry, base, options, pc, err, cursor, limitEff, selfQuery,
          sortedColumns, pageQuery, countQuery, issued, coll, cursors, metadata,
          pagination, link, hist>>

Absent == [t |-> "absent", v |-> <<>>]
Scalar == [t |-> "scalar", v |-> <<>>]
Array(v) == [t |-> "array", v |-> v]

NoOptions == [limit |-> JUndefined, after |-> Absent, before |-> Absent]
PendingColl == [state |-> "pending", models |-> <<>>]
PendingMeta == [state |-> "pending", limit |-> 0, hasRowCount |-> FALSE, rowCount |-> 0]
NoCursors == [has |-> FALSE, after |-> <<>>, before |-> <<>>]
NoNumber == [kind |-> "none", n |-> 0]
NoPagination ==
  [hasRowCount |-> FALSE, rowCount |-> 0, limit |-> 0, pageCount |-> NoNumber,
   cursors |-> NoCursors]

\* the per-call state as a call starts
Fresh ==
  /\ err' = ""
  /\ cursor' = NoCursor
  /\ limitEff' = 0
  /\ sortedColumns' = <<>>
  /\ pageQuery' = EmptyQuery
  /\ countQuery' = EmptyQuery
  /\ issued' = {}
  /\ coll' = PendingColl
  /\ cursors' = NoCursors
  /\ metadata' = PendingMeta
  /\ pagination' = NoPagination

InitCall ==
  /\ entry = "collection"
  /\ base = EmptyQuery
  /\ options = NoOptions
  /\ pc = "idle"
  /\ err = ""
  /\ cursor = NoCursor
  /\ limitEff = 0
  /\ selfQuery = EmptyQuery
  /\ sortedColumns = <<>>
  /\ pageQuery = EmptyQuery
  /\ countQuery = EmptyQuery
  /\ issued = {}
  /\ coll = PendingColl
  /\ cursors = NoCursors
  /\ metadata = PendingMeta
  /\ pagination = NoPagination
  /\ link = "fresh"
  /\ hist = <<>>

Init == table \in Tables /\ InitCall

InitFixed == table = FixedTable /\ InitCall

\* ------------------------------------------------------------- entry points
\* Model#fetchCursorPage, Model.fetchCursorPage, Collection#fetchCursorPage.
\* Model.fetchCursorPage forges a new model, whose query is empty.
Call(entries, queries, opts) ==
  /\ pc = "idle"
  /\ \E e \in entries, q \in queries, o \in opts :
       /\ entry' = e
       /\ base' = (IF e = "static" THEN EmptyQuery ELSE q)
       /\ selfQuery' = (IF e = "static" THEN EmptyQuery ELSE q)
       /\ options' = o
  /\ pc' = "decode"
  /\ link' = "fresh"
  /\ Fresh
  /\ UNCHANGED <<table, hist>>

\* BranchOrder with count() called before paginate()
BranchOrderCountFirst == <<"count", "paginate">>

\* Promise.all([paginate(), count(...)]): the array elements are evaluated
\* left to right.
BranchOrder == <<"paginate", "count">>

AfterBranch(b) == IF BranchOrder[1] = b THEN BranchOrder[2] ELSE "await"

\* const cursor = (() => {...})() and const _limit = ...
DecodedCursor(o) ==
  IF o.after.t # "absent"
    THEN IF o.after.t # "array" THEN [err |-> "is not an array", cursor |-> NoCursor]
         ELSE [err |-> "", cursor |-> [type |-> "after", columnValues |-> o.after.v]]
  ELSE IF o.before.t # "absent"
    THEN IF o.before.t # "array" THEN [err |-> "is not an array", cursor |-> NoCursor]
         ELSE [err |-> "", cursor |-> [type |-> "before", columnValues |-> o.before.v]]
  ELSE [err |-> "", cursor |-> NoCursor]

Decode ==
  /\ pc = "decode"
  /\ LET d == DecodedCursor(options)
     IN IF d.err # ""
          THEN /\ pc' = "failed"
               /\ err' = d.err
               /\ UNCHANGED <<cursor, limitEff>>
        ELSE /\ cursor' = d.cursor
             /\ limitEff' = ensurePositiveIntWithDefault(options.limit, DEFAULT_LIMIT)
             /\ pc' = BranchOrder[1]
             /\ err' = ""
  /\ UNCHANGED <<table, entry, base, options, selfQuery, sortedColumns, pageQuery,
                 countQuery, issued, coll, cursors, metadata, pagination, link, hist>>

\* paginate(): `pager` is `collection`. The collection entry point passes the
\* collection itself, so pager.query(cb) hands cb the query builder that
\* self.query() returns; the model entry points pass an arrow function, which
\* has no query method.
Paginate ==
  /\ pc = "paginate"
  /\ IF entry # "collection"
       THEN /\ pc' = "failed"
            /\ err' = "TypeError"
            /\ UNCHANGED <<selfQuery, sortedColumns, pageQuery, issued>>
     ELSE LET r == applyCursor(selfQuery, cursor)
              qb == limit(r.qb, limitEff)
          IN IF r.err # ""
               THEN /\ pc' = "failed"
                    /\ err' = r.err
                    /\ selfQuery' = r.qb
                    /\ UNCHANGED <<sortedColumns, pageQuery, issued>>
             ELSE /\ pc' = AfterBranch("paginate")
                  /\ err' = ""
                  /\ sortedColumns' = r.sortedColumns
                  /\ pageQuery' = qb
                  /\ issued' = issued \cup {"page"}
                  \* fetch() takes the builder for its Sync; bookshelf either
                  \* leaves it on the collection or resets the collection's query
                  /\ selfQuery' \in {qb, EmptyQuery}
  /\ UNCHANGED <<table, entry, base, options, cursor, limitEff, countQuery, coll,
                 cursors, metadata, pagination, link, hist>>

notNeededQueries == {"orderByBasic", "orderByRaw", "groupByBasic", "groupByRaw"}

\* the query count() builds on a new model out of self.query().clone()
CountQueryOf(q) ==
  LET Kept(st) == ~(st.type \in notNeededQueries \/ st.grouping = "columns")
  IN countDistinct([q EXCEPT !.statements = SelectSeq(@, Kept)],
                   <<MainTable, IdAttribute>>)

Count ==
  /\ pc = "count"
  /\ countQuery' = CountQueryOf(selfQuery)
  /\ issued' = issued \cup {"count"}
  /\ pc' = AfterBranch("count")
  /\ UNCHANGED <<table, entry, base, options, err, cursor, limitEff, selfQuery,
                 sortedColumns, pageQuery, coll, cursors, metadata, pagination,
                 link, hist>>

\* model2cursor and extractCursors
model2cursor(tbl, id, cols) == [i \in 1..Len(cols) |-> Get(tbl, id, cols[i].name)]

extractCursors(tbl, models, cols) ==
  IF Len(models) = 0 THEN NoCursors
  ELSE [has |-> TRUE,
        before |-> model2cursor(tbl, models[1], cols),
        after |-> model2cursor(tbl, models[Len(models)], cols)]

\* .fetch(fetchOptions).then(coll => ...): the page arrives
PageResponse ==
  /\ pc = "await"
  /\ coll.state = "pending"
  /\ \E r \in SelectResults(table, pageQuery) :
       /\ coll' = r
       /\ cursors' = (IF r.state = "ok"
                        THEN extractCursors(table, r.models, sortedColumns)
                        ELSE NoCursors)
  /\ UNCHANGED <<table, entry, base, options, pc, err, cursor, limitEff, selfQuery,
                 sortedColumns, pageQuery, countQuery, issued, metadata, pagination,
                 link, hist>>

\* .fetchAll().then(result => ...): the count arrives. `columns` is the number
\* of attributes of the returned model.
MetadataOf(r, columns, lim) ==
  IF r.state = "error"
    THEN [state |-> "error", limit |-> lim, hasRowCount |-> FALSE, rowCount |-> 0]
  ELSE IF r.length = 1 /\ columns = 1
    THEN [state |-> "ok", limit |-> lim, hasRowCount |-> TRUE,
          rowCount |-> ParseInt(JNumber(r.count * 10)).n]
  ELSE [state |-> "ok", limit |-> lim, hasRowCount |-> FALSE, rowCount |-> 0]

CountResponse(columnCounts) ==
  /\ pc = "await"
  /\ metadata.state = "pending"
  /\ \E r \in CountResults(table, countQuery), columns \in columnCounts :
       metadata' = MetadataOf(r, columns, limitEff)
  /\ UNCHANGED <<table, entry, base, options, pc, err, cursor, limitEff, selfQuery,
                 sortedColumns, pageQuery, countQuery, issued, coll, cursors,
                 pagination, link, hist>>

\* Math.ceil(p / q) for q > 0
CeilDiv(p, q) == -((-p) \div q)

\* Math.ceil(metadata.rowCount / _limit) as JavaScript computes it
pageCountOf(meta, lim) ==
  IF ~meta.hasRowCount THEN [kind |-> "NaN", n |-> 0]
  ELSE IF lim = 0
    THEN IF meta.rowCount = 0 THEN [kind |-> "NaN", n |-> 0]
         ELSE [kind |-> "Infinity", n |-> 0]
  ELSE IF lim < 0 THEN [kind |-> "int", n |-> CeilDiv(-meta.rowCount, -lim)]
  ELSE [kind |-> "int", n |-> CeilDiv(meta.rowCount, lim)]

\* Promise.all(...) rejects when either branch rejects
Reject ==
  /\ pc = "await"
  /\ coll.state = "error" \/ metadata.state = "error"
  /\ pc' = "failed"
  /\ err' = "query error"
  /\ UNCHANGED <<table, entry, base, options, cursor, limitEff, selfQuery,
                 sortedColumns, pageQuery, countQuery, issued, coll, cursors,
                 metadata, pagination, link, hist>>

\* .then(([{ coll, cursors }, metadata]) => ...)
Combine ==
  /\ pc = "await"
  /\ coll.state = "ok"
  /\ metadata.state = "ok"
  /\ pagination' = [hasRowCount |-> metadata.hasRowCount,
                    rowCount |-> metadata.rowCount,
                    limit |-> metadata.limit,
                    pageCount |-> pageCountOf(metadata, limitEff),
                    cursors |-> cursors]
  /\ pc' = "done"
  /\ UNCHANGED <<table, entry, base, options, err, cursor, limitEff, selfQuery,
                 sortedColumns, pageQuery, countQuery, issued, coll, cursors,
                 metadata, link, hist>>

\* The caller builds the same base query again and passes a cursor of the
\* page it just got.
Follow(type) ==
  /\ pc = "done"
  /\ pagination.cursors.has
  /\ Len(hist) < MaxChain
  /\ options' = (IF type = "after"
                   THEN [options EXCEPT !.after = Array(pagination.cursors.after),
                                        !.before = Absent]
                   ELSE [options EXCEPT !.before = Array(pagination.cursors.before),
                                        !.after = Absent])
  /\ hist' = Append(hist, [models |-> coll.models, link |-> link])
  /\ link' = type
  /\ selfQuery' = base
  /\ pc' = "decode"
  /\ Fresh
  /\ UNCHANGED <<table, entry, base>>

FollowAfter == Follow("after")
FollowBefore == Follow("before")

\* ------------------------------------------------------------------ inputs
SeqsUpTo(S, n) == UNION {[1..k -> S] : k \in 0..n}

\* one ORDER BY clause the caller may have added: an unqualified column, a
\* column qualified by the paginated table, a column of a joined table
OwnOrders ==
  {[value |-> v, direction |-> d] : v \in {<<"a">>, <<MainTable, IdAttribute>>},
                                    d \in {"ASC", "DESC"}}
JoinedOrders == {[value |-> <<"makers", "x">>, direction |-> "ASC"]}

RECURSIVE WithOrders(_, _)
WithOrders(qb, ords) ==
  IF ords = <<>> THEN qb
  ELSE WithOrders(orderBy(qb, Head(ords).value, Head(ords).direction), Tail(ords))

\* the values the caller's query filters column a on: none, or one
NoFilter == <<>>
Filter(f) == <<f>>

\* the caller's query: qb.groupBy('cars.id'), qb.where('a', '=', f), .orderBy(...)
BaseQuery(grouped, filter, ords) ==
  LET q1 == IF grouped THEN groupBy(EmptyQuery, <<MainTable, IdAttribute>>) ELSE EmptyQuery
      q2 == IF filter = NoFilter THEN q1 ELSE where(q1, "a", "=", filter[1])
  IN WithOrders(q2, ords)

Entries == {"model", "static", "collection"}

CursorArrays(vals) == {Array(v) : v \in SeqsUpTo(vals, MaxSort)}

NumericLimits == {JUndefined} \cup {JNumber(10 * k) : k \in 1..MaxLimit}

\* --- the page and the count over every table
MainQueries ==
  {BaseQuery(FALSE, f, o) : f \in {NoFilter} \cup {Filter(x) : x \in 0..MaxVal},
                            o \in SeqsUpTo(OwnOrders, MaxSort)}

MainOptions ==
  {[limit |-> l, after |-> a, before |-> Absent] :
     l \in NumericLimits, a \in {Absent} \cup CursorArrays(0..MaxCursorVal)}
  \cup
  {[limit |-> l, after |-> Absent, before |-> b] :
     l \in NumericLimits, b \in CursorArrays(0..MaxCursorVal)}

CallMain == Call(Entries, MainQueries, MainOptions)
CountResponseMain == CountResponse({1})

Next ==
  \/ CallMain
  \/ Decode
  \/ Paginate
  \/ Count
  \/ PageResponse
  \/ CountResponseMain
  \/ Combine
  \/ FollowAfter
  \/ FollowBefore

Spec == Init /\ [][Next]_vars

\* --- validation: every shape of after/before, joined sort columns, a count
\* --- result of one or two columns
ValidationQueries ==
  {BaseQuery(FALSE, NoFilter, o) : o \in SeqsUpTo(OwnOrders \cup JoinedOrders, MaxSort)}

ValidationOptions ==
  {[limit |-> JUndefined, after |-> a, before |-> b] :
     a \in {Absent, Scalar} \cup CursorArrays({0}),
     b \in {Absent, Scalar} \cup CursorArrays({0})}

CallValidation == Call(Entries, ValidationQueries, ValidationOptions)
CountResponseValidation == CountResponse({1, 2})

NextValidation ==
  \/ CallValidation
  \/ Decode
  \/ Paginate
  \/ Count
  \/ PageResponse
  \/ CountResponseValidation
  \/ Combine

SpecValidation == InitFixed /\ [][NextValidation]_vars

\* --- options.limit of every kind
LimitChars == {"0", "1", "-", "a", " ", "."}

LimitValues ==
  {JUndefined}
    \cup {JNumber(5 * k) : k \in (-2 * MaxLimit)..(2 * MaxLimit)}
    \cup {JString(cs) : cs \in SeqsUpTo(LimitChars, MaxStrLen)}

LimitQueries == {BaseQuery(g, f, <<>>) : g \in BOOLEAN, f \in {NoFilter, Filter(0)}}

LimitOptions == {[limit |-> l, after |-> Absent, before |-> Absent] : l \in LimitValues}

CallLimit == Call({"collection"}, LimitQueries, LimitOptions)

NextLimit ==
  \/ CallLimit
  \/ Decode
  \/ Paginate
  \/ Count
  \/ PageResponse
  \/ CountResponseMain
  \/ Reject
  \/ Combine

SpecLimit == InitFixed /\ [][NextLimit]_vars

\* --- every cursor against every list of sort columns
CursorQueries ==
  {BaseQuery(FALSE, f, o) : f \in {NoFilter, Filter(MaxVal)}, o \in SeqsUpTo(OwnOrders, MaxSort)}

CursorOptions ==
  {[limit |-> JUndefined, after |-> a, before |-> Absent] :
     a \in CursorArrays(0..MaxCursorVal)}
  \cup
  {[limit |-> JUndefined, after |-> Absent, before |-> b] :
     b \in CursorArrays(0..MaxCursorVal)}

CallCursor == Call({"collection"}, CursorQueries, CursorOptions)

NextCursor ==
  \/ CallCursor
  \/ Decode
  \/ Paginate
  \/ Count
  \/ PageResponse
  \/ CountResponseMain
  \/ Combine

SpecCursor == InitFixed /\ [][NextCursor]_vars

\* ------------------------------------------------------------------ claims
Range(f) == {f[i] : i \in DOMAIN f}

PageFetched == pc \in {"await", "done"} /\ coll.state = "ok"

\* C1: a page fetched with the `after` cursor of the page before it holds
\* exactly the rows that immediately follow that page in the sort order of the
\* base query's rows: there is a sorted listing of the rows the base query
\* matches in which the previous page is a run of consecutive rows and the new
\* page is the next `limit` rows (no overlap, no gap).
C1_NextPageFollows ==
  (pc = "done" /\ link = "after" /\ hist # <<>>) =>
    LET prev == hist[Len(hist)].models
        rows == Matching(table, base)
    IN \E s \in Orderings(table, rows, OrderStatements(pageQuery)) :
         \E k \in 1..(Len(s) - Len(prev) + 1) :
           /\ SubSeq(s, k, k + Len(prev) - 1) = prev
           /\ coll.models = Take(SubSeq(s, k + Len(prev), Len(s)), limitEff)

\* C2: fetching with the `before` cursor of a page P and then with the `after`
\* cursor of the page that came back returns P's row set.
C2_BeforeThenAfterReturns ==
  (pc = "done" /\ link = "after" /\ Len(hist) >= 2 /\ hist[Len(hist)].link = "before") =>
    Range(coll.models) = Range(hist[Len(hist) - 1].models)

\* C3: with one sort column and after = [v], every returned row has a
\* sort-column value > v (ascending) or < v (descending), the rows come in
\* the query's sort order, and there are at most `limit` of them.
C3_SingleColumnAfter ==
  (PageFetched /\ cursor.type = "after" /\ Len(sortedColumns) = 1) =>
    LET v == cursor.columnValues[1]
        col == sortedColumns[1]
        m == coll.models
    IN /\ \A i \in 1..Len(m) :
            IF col.direction = "DESC" THEN Get(table, m[i], col.name) < v
            ELSE Get(table, m[i], col.name) > v
       /\ \A i, j \in 1..Len(m) :
            i < j => ~SortsBefore(table, m[j], m[i], OrderStatements(pageQuery))
       /\ Len(m) <= limitEff

\* the where statements applyCursor added to the caller's
AddedWheres ==
  LET ws == WhereStatements(pageQuery)
  IN SubSeq(ws, Len(WhereStatements(base)) + 1, Len(ws))

\* '>' flipped once for `before` and once more for DESC
ExpectedSign(cursorType, direction) ==
  IF (cursorType = "before") = (direction = "DESC") THEN ">" ELSE "<"

\* the row tuple comes strictly after the cursor tuple in the sort order
RECURSIVE TupleAfter(_, _, _)
TupleAfter(rowVals, curVals, dirs) ==
  IF rowVals = <<>> THEN FALSE
  ELSE IF Head(rowVals) = Head(curVals)
    THEN TupleAfter(Tail(rowVals), Tail(curVals), Tail(dirs))
  ELSE IF Head(dirs) = "DESC" THEN Head(rowVals) < Head(curVals)
  ELSE Head(rowVals) > Head(curVals)

RECURSIVE TupleBefore(_, _, _)
TupleBefore(rowVals, curVals, dirs) ==
  IF rowVals = <<>> THEN FALSE
  ELSE IF Head(rowVals) = Head(curVals)
    THEN TupleBefore(Tail(rowVals), Tail(curVals), Tail(dirs))
  ELSE IF Head(dirs) = "DESC" THEN Head(rowVals) > Head(curVals)
  ELSE Head(rowVals) < Head(curVals)

\* rows of every id and every value of a
ProbeRows == {[id |-> i, tbl |-> [j \in Ids |-> a]] : i \in Ids, a \in 0..MaxVal}

CursorApplied ==
  entry = "collection" /\ "page" \in issued /\ cursor.type # "none"

\* C4: for n >= 1 sort columns and a cursor of n values, applyCursor adds n
\* where statements, each ORed to what precedes it; statement i holds
\* "columns 1..i-1 equal their cursor values AND column i <sign_i> its cursor
\* value", sign_i being '>' flipped once for a `before` cursor and once more
\* for a DESC column; and a row satisfies their disjunction exactly when its
\* sort tuple comes strictly after (`after`) or strictly before (`before`) the
\* cursor tuple in the query's lexicographic sort order.
C4_KeysetPredicate ==
  CursorApplied =>
    LET orders == OrderStatements(pageQuery)
        n == Len(orders)
        names == [i \in 1..n |-> OrderColumn(orders[i])]
        dirs == [i \in 1..n |-> orders[i].direction]
        cv == cursor.columnValues
        added == AddedWheres
    IN /\ n >= 1
       /\ Len(added) = n
       /\ \A i \in 1..n :
            /\ added[i].bool = "or"
            /\ added[i].conds =
                 [j \in 1..i |->
                    IF j < i THEN Cond(names[j], "=", cv[j])
                    ELSE Cond(names[i], ExpectedSign(cursor.type, dirs[i]), cv[i])]
       /\ \A r \in ProbeRows :
            LET vals == [i \in 1..n |-> Get(r.tbl, r.id, names[i])]
            IN (\E i \in 1..n : StmtHolds(r.tbl, r.id, added[i]))
                 <=> (IF cursor.type = "after" THEN TupleAfter(vals, cv, dirs)
                      ELSE TupleBefore(vals, cv, dirs))

\* [a ASC, id DESC] with an `after` cursor has been applied, and some row
\* passes by the tie-break alone (a = cursor a and id < cursor id)
C4_Witness ==
  /\ CursorApplied
  /\ cursor.type = "after"
  /\ Len(sortedColumns) = 2
  /\ sortedColumns[1] = [ok |-> TRUE, name |-> "a", direction |-> "ASC"]
  /\ sortedColumns[2] = [ok |-> TRUE, name |-> "id", direction |-> "DESC"]
  /\ AddedWheres[2].conds = <<Cond("a", "=", cursor.columnValues[1]),
                              Cond("id", "<", cursor.columnValues[2])>>
  /\ \E r \in ProbeRows :
       /\ StmtHolds(r.tbl, r.id, AddedWheres[2])
       /\ ~StmtHolds(r.tbl, r.id, AddedWheres[1])

\* C5: rowCount is the number of rows the caller's base query matches,
\* whatever the limit and the cursor, and the query the count branch clones
\* is still the base query when it clones it.
C5_RowCountOfBaseQuery ==
  /\ pc = "count" => selfQuery = base
  /\ pc = "done" =>
       /\ pagination.hasRowCount
       /\ pagination.rowCount = Cardinality(Matching(table, base))

\* C6: a call whose options hold both `after` and `before` fails with the
\* invalid-cursor-input error; it goes no further than decoding the cursor.
C6_BothCursorsRejected ==
  (options.after.t # "absent" /\ options.before.t # "absent" /\ pc \notin {"idle", "decode"})
    => (pc = "failed" /\ err = "is not an array")

ValidationErrors == {"is not an array", "sort/cursor mismatch", "sorting by joined table"}

\* C7: a call that failed with a validation error (after/before not an
\* array, cursor length different from the number of sort columns, sort
\* column of another table) has issued neither the page fetch nor the count.
C7_ValidationBeforeQueries ==
  (pc = "failed" /\ err \in ValidationErrors) => issued = {}

\* a cursor of one value against two sort columns has been refused before any query
C7_Witness ==
  /\ pc = "failed"
  /\ err = "sort/cursor mismatch"
  /\ entry = "collection"
  /\ cursor.type = "before"
  /\ Len(cursor.columnValues) = 1
  /\ Len(OrderStatements(base)) = 2
  /\ issued = {}

HasDigit(cs) == \E i \in 1..Len(cs) : IsDigit(cs[i])

AbsentOrNonNumeric(v) == v.t = "undefined" \/ (v.t = "string" /\ ~HasDigit(v.s))

\* C8: whatever options.limit is, the effective limit is a positive integer,
\* it is 10 when options.limit is absent or non-numeric, it is what
\* pagination.limit reports, and the call does not fail.
C8_EffectiveLimitPositive ==
  /\ pc \notin {"idle", "decode"} =>
       /\ limitEff >= 1
       /\ AbsentOrNonNumeric(options.limit) => limitEff = DEFAULT_LIMIT
  /\ pc = "done" => pagination.limit = limitEff
  /\ pc # "failed"

\* the least k with k * lim >= n
CeilingOf(n, lim) == CHOOSE k \in 0..n : k * lim >= n /\ \A j \in 0..(k - 1) : j * lim < n

\* C9: a returned result has a non-negative integer rowCount and pageCount =
\* ceil(rowCount / limit); when the count result is not one row of one
\* column the call fails instead of returning a result.
C9_PageCountOrFailure ==
  /\ pc = "done" =>
       /\ pagination.hasRowCount
       /\ pagination.rowCount >= 0
       /\ pagination.pageCount.kind = "int"
       /\ pagination.pageCount.n = CeilingOf(pagination.rowCount, pagination.limit)
  /\ (metadata.state = "ok" /\ ~metadata.hasRowCount) => pc # "done"

\* C10: every row of a page fetched with a cursor satisfies the WHERE
\* conditions of the caller's base query.
C10_PageWithinBaseFilter ==
  (PageFetched /\ cursor.type # "none") =>
    \A i \in 1..Len(coll.models) : WhereHolds(table, coll.models[i], base)

====
